---- MODULE Spec2Model ----
(***************************************************************************)
(* The user fetching services of src/src/services/api.ts: UserService      *)
(* (one HTTP GET per call), CachingUserService (a Map keyed by             *)
(* page/results whose entries are deleted by setTimeout callbacks, by      *)
(* clearCache and by invalidatePage) and the factory createUserService.    *)
(*                                                                         *)
(* One JavaScript event loop: every action below is one run-to-completion  *)
(* job (a caller's synchronous call, the continuation of an await, or a    *)
(* timer callback).  Time is a discrete clock; a timer may fire at or      *)
(* after its due time, never before.                                       *)
(*                                                                         *)
(* Also the debounce helper (src/utils/debounce) and the UserList          *)
(* component (src/src/components/UserList.vue) that pages through the      *)
(* service on mount, on debounced scroll events and on retry clicks.       *)
(* Specifications: Spec (the services), SpecFactory (the product of        *)
(* createUserService), SpecExpiry (a caching service whose timers fire     *)
(* when due), SpecZeroTTL (a caching service with cacheTTL <= 0), SpecKey  *)
(* (getCacheKey on integers), SpecList and SpecListFair (UserList with its *)
(* debounce).                                                              *)
(***************************************************************************)
EXTENDS Integers, Sequences, FiniteSets, TLC

(* ------------------------------ bounds -------------------------------- *)
MaxFetches == 2    \* fetch() calls (cache misses) per behaviour
MaxTime == 1       \* clock ticks per behaviour
LongTTL == 1       \* the positive cacheTTL, in clock ticks
MaxScrolls == 3    \* scroll events delivered per behaviour
ScrollWait == 1    \* the debounce wait of handleScroll, in clock ticks
LastPage == 3      \* pages from LastPage on come back empty

(* ------------------------- program constants -------------------------- *)
DefaultPage == 1
DefaultResults == 10

Pages == {1, 2}
Sizes == {DefaultResults}
TTLs == {LongTTL}
Statuses == {404, 500}

(* The options objects a caller may pass: any of page, results omitted.   *)
OptionsSet ==
  { [f \in D |-> IF f = "page" THEN p ELSE r] :
      D \in SUBSET {"page", "results"}, p \in Pages, r \in Sizes }

(* ------------------------------ values -------------------------------- *)
Undefined == [tag |-> "undefined"]
ErrorOf(m) == [tag |-> "Error", message |-> m]
NonError == [tag |-> "string", message |-> "boom"]
IsError(v) == v.tag = "Error"
Truthy(v) == v.tag # "undefined"

Resolve(v) == [type |-> "resolve", value |-> v]
Reject(v) == [type |-> "reject", value |-> v]
NoOutcome == [type |-> "none", value |-> Undefined]

(* What fetch() and response.json() may reject with: an Error (TypeError,  *)
(* SyntaxError) or, with an injected fetch, any other value.               *)
FetchFailures == {ErrorOf("Failed to fetch"), NonError}
JsonFailures == {ErrorOf("Unexpected token"), NonError}

(* The bodies the upstream may answer a request for (page, results) with.  *)
ApiResponse(users, page, results, version) ==
  [tag |-> "ApiResponse", results |-> users,
   info |-> [page |-> page, results |-> results, seed |-> "abc", version |-> version]]
Bodies(page, results) ==
  { ApiResponse(<< >>, page, results, "1.0"),
    ApiResponse(<<"u1">>, page, results, "1.0"),
    ApiResponse(<<"u2">>, page, results, "1.4") }

(* --------------------------- string conversion ------------------------ *)
Digit(d) ==
  CASE d = 0 -> "0" [] d = 1 -> "1" [] d = 2 -> "2" [] d = 3 -> "3" [] d = 4 -> "4"
    [] d = 5 -> "5" [] d = 6 -> "6" [] d = 7 -> "7" [] d = 8 -> "8" [] d = 9 -> "9"

RECURSIVE NumToString(_)
NumToString(n) ==
  IF n < 0 THEN "-" \o NumToString(-n)
  ELSE IF n < 10 THEN Digit(n)
  ELSE NumToString(n \div 10) \o Digit(n % 10)

(* ------------------------------ UserService --------------------------- *)
(* Which fields the caller left out of the options object.                 *)
OmittedNotes(o) ==
  {n \in {"pageOmitted"} : "page" \notin DOMAIN o}
    \cup {n \in {"resultsOmitted"} : "results" \notin DOMAIN o}

(* A variant with another default page.                                    *)
PageOfOtherDefault(o) == IF "page" \in DOMAIN o THEN o.page ELSE 2

PageOf(o) == IF "page" \in DOMAIN o THEN o.page ELSE DefaultPage
ResultsOf(o) == IF "results" \in DOMAIN o THEN o.results ELSE DefaultResults

RequestUrl(page, results) ==
  "https://randomuser.me/api/?page=" \o NumToString(page)
    \o "&results=" \o NumToString(results) \o "&seed=abc"

(* A variant that drops the status from the message.                       *)
HttpErrorNoStatus(status) == ErrorOf("HTTP error!")

(* throw new Error(`HTTP error! status: ${response.status}`)               *)
HttpError(status) == ErrorOf("HTTP error! status: " \o NumToString(status))

(* catch (error) { if (error instanceof Error) { ...; throw error; } }     *)
Catch(error) == IF IsError(error) THEN Reject(error) ELSE Resolve(Undefined)

(* ---------------------------- CachingUserService ---------------------- *)
(* A variant that joins the two numbers without a separator.               *)
getCacheKeyUnseparated(page, results) ==
  "page_" \o NumToString(page) \o NumToString(results)

getCacheKey(page, results) ==
  "page_" \o NumToString(page) \o "_" \o NumToString(results)

Keys == { getCacheKey(p, r) : p \in Pages, r \in Sizes }
NoKey == "-"

(* The Map operations used on this.cache.                                  *)
EmptyMap == [k \in {} |-> << >>]
CacheHas(m, key) == key \in DOMAIN m
(* Variants of the Map operations: a set that keeps the first write, a     *)
(* delete that drops every entry, a clear that drops none.                 *)
CacheSetIfAbsent(m, key, users) ==
  IF key \in DOMAIN m THEN m
  ELSE [k \in DOMAIN m \cup {key} |-> IF k = key THEN users ELSE m[k]]
CacheDeleteAll(m, key) == EmptyMap
CacheClearNothing(m) == m

CacheSet(m, key, users) == [k \in DOMAIN m \cup {key} |-> IF k = key THEN users ELSE m[k]]
CacheDelete(m, key) == [k \in DOMAIN m \ {key} |-> m[k]]
CacheClear(m) == EmptyMap

HitResponse(m, key, page, results) ==
  [tag |-> "ApiResponse", results |-> m[key],
   info |-> [page |-> page, results |-> results, seed |-> "abc", version |-> "1.0"]]

(* A variant that wraps a rejection in an error of its own.                *)
CachingReturnWrapped(svc) ==
  IF svc.type = "reject" THEN Reject(ErrorOf("Failed to load users")) ELSE svc

(* What the decorator hands its caller after `await super.fetchUsers`: the *)
(* wrapped service's settlement itself (a rejection is rethrown by await). *)
CachingReturn(svc) == svc

(* if (response) { cache.set(...); setupCacheExpiration(...) }             *)
(* A variant in which the miss branch never stores.                        *)
ShouldStoreNever(svc) == FALSE

ShouldStore(svc) == svc.type = "resolve" /\ Truthy(svc.value)

(* A variant of the hit branch that starts the entry's TTL anew.           *)
TimersAfterHitRearmed(ts, key, t, ttl) ==
  Append(ts, [key |-> key, due |-> t + ttl, gen |-> 0])

(* The timers after the hit branch (api.ts 121-131), which sets none.      *)
TimersAfterHit(ts, key, t, ttl) == ts

(* A variant that schedules no timer.                                      *)
setupCacheExpirationNone(ts, key, t, ttl, gen) == ts

(* A variant whose host gives every timer a delay of at least one tick.    *)
setupCacheExpirationMinDelay(ts, key, t, ttl, gen) ==
  Append(ts, [key |-> key, due |-> t + (IF ttl < 1 THEN 1 ELSE ttl), gen |-> gen])

(* setTimeout(() => this.cache.delete(key), this.cacheTTL): the timers of  *)
(* one instance share one delay, so they fire in the order they were set;  *)
(* the host takes a negative delay as 0.                                   *)
(* gen is the number of the store the timer was set for (history only).    *)
setupCacheExpiration(ts, key, t, ttl, gen) ==
  Append(ts, [key |-> key, due |-> t + (IF ttl < 0 THEN 0 ELSE ttl), gen |-> gen])

(* A variant that leaves expired entries to be dropped on the next access. *)
ExpireCallbackLazy(m, key) == m

(* A variant whose callback empties the whole map.                         *)
ExpireCallbackClearsAll(m, key) == EmptyMap

(* The timer callback.                                                     *)
ExpireCallback(m, key) == CacheDelete(m, key)

(* ---------------------------- createUserService ----------------------- *)
DefaultCacheTTL == 5 * 60 * 1000
EmptyOptions == [f \in {} |-> TRUE]
FactoryOptionsSet ==
  {EmptyOptions, [enableCaching |-> FALSE], [cacheTTL |-> LongTTL],
   [enableCaching |-> FALSE, cacheTTL |-> LongTTL]}

(* A variant of the factory whose caching is off by default.               *)
EnableCachingOffByDefault(fo) ==
  IF "enableCaching" \in DOMAIN fo THEN fo.enableCaching ELSE FALSE

EnableCachingOf(fo) == IF "enableCaching" \in DOMAIN fo THEN fo.enableCaching ELSE TRUE
CacheTTLOf(fo) == IF "cacheTTL" \in DOMAIN fo THEN fo.cacheTTL ELSE DefaultCacheTTL

(* The object the factory returns: the decorator around a UserService, or  *)
(* a bare UserService.                                                     *)
createUserService(fo) ==
  IF EnableCachingOf(fo)
  THEN [class |-> "CachingUserService", service |-> [class |-> "UserService"],
        cacheTTL |-> CacheTTLOf(fo)]
  ELSE [class |-> "UserService"]

(* -------------------------------- debounce ---------------------------- *)
(* The host's timer table holds records [id, left, args]: the handle, the  *)
(* ticks left before the callback may run, and the arguments the callback  *)
(* `later` closed over. Handle 0 stands for the unassigned `timeout`.      *)
NoHandle == 0

(* A variant of clearTimeout that cancels nothing.                         *)
clearTimeoutNoop(table, handle) == table

clearTimeout(table, handle) == {t \in table : t.id # handle}
setTimeout(table, id, args, wait) == table \cup {[id |-> id, left |-> wait, args |-> args]}

(* executedFunction(...args): lines 21-22.                                 *)
executedFunction(table, handle, id, args, wait) ==
  setTimeout(clearTimeout(table, handle), id, args, wait)

(* The table after the timer t has fired and `later` ran line 17.          *)
laterTable(table, handle, t) == clearTimeout(table \ {t}, handle)

(* -------------------------------- UserList ---------------------------- *)
ScrollThreshold == 100
ListPageSize == 10
Null == [tag |-> "null"]
Str(v) == [tag |-> "string", value |-> v]
DefaultErrorMessage == "An error occurred while loading users"

(* Geometries of the list container when a scroll check runs.              *)
Geometries ==
  { [scrollHeight |-> 1000, scrollTop |-> st, clientHeight |-> 500] : st \in {0, 399, 400, 500} }
NoGeometry == [scrollHeight |-> 0, scrollTop |-> 0, clientHeight |-> 0]

(* A variant of the scroll test with a strict comparison.                  *)
NearBottomStrict(g) == g.scrollHeight - g.scrollTop < g.clientHeight + ScrollThreshold

NearBottom(g) == g.scrollHeight - g.scrollTop <= g.clientHeight + ScrollThreshold

(* A variant of loadUsers' guard that ignores `loading`.                   *)
LoadGuardIgnoresLoading(l, h) == ~h

(* loadUsers returns at once when this holds (line 98).                    *)
LoadGuard(l, h) == l \/ ~h

(* A variant that puts the new page in front of the list.                  *)
AppendUsersInFront(us, results) == results \o us

(* [...users.value, ...response.results]                                   *)
AppendUsers(us, results) == us \o results

(* A variant of the catch block that leaves hasMore alone.                 *)
HasMoreAfterFailureKept(h) == h

(* hasMore after the catch block (line 123).                               *)
HasMoreAfterFailure(h) == FALSE

(* A variant of the empty-page branch that leaves hasMore alone.           *)
HasMoreAfterEmptyKept(h) == h

(* hasMore after a response with an empty list (line 110).                 *)
HasMoreAfterEmpty(h) == FALSE

ErrorMessageOf(err) == IF IsError(err) THEN Str(err.message) ELSE Str(DefaultErrorMessage)

(* What the service of UserList can answer a request for `page` with: the  *)
(* outcomes of CachingUserService.fetchUsers over the upstream's answers.  *)
PageUsers(page) ==
  { <<"p" \o NumToString(page) \o "a", "p" \o NumToString(page) \o "b">>,
    <<"p" \o NumToString(page) \o "c">> }
ListBodies(page) ==
  {ApiResponse(<< >>, page, ListPageSize, "1.0")}
    \cup (IF page < LastPage
          THEN {ApiResponse(us, page, ListPageSize, "1.0") : us \in PageUsers(page)}
          ELSE {})
ServiceOutcomes(page) ==
  {CachingReturn(Resolve(b)) : b \in ListBodies(page)}
    \cup {CachingReturn(Catch(HttpError(st))) : st \in {500}}
    \cup {CachingReturn(Catch(e)) : e \in FetchFailures}

(* ------------------------------- state -------------------------------- *)
VARIABLES
  users,          \* UserList: users.value
  currentPage,    \* UserList: currentPage.value
  loading,        \* UserList: loading.value
  errorRef,       \* UserList: error.value (Null or a string)
  hasMore,        \* UserList: hasMore.value
  inflight,       \* UserList: loadUsers invocations suspended at their await
  phase,          \* UserList: "setup", "mounted" or "unmounted"
  timeout,        \* debounce: the closure's `timeout` handle
  timerTable,     \* debounce: the host's pending timers set by it
  scrollCount,    \* scroll events delivered so far
  quiet,          \* history: ticks since the last handleScroll call, up to ScrollWait
  nRuns,          \* history: runs of the debounced function
  nBursts,        \* history: handleScroll calls made while no timer was pending
  loaded,         \* history: the pages appended to users, in order
  failedPage,     \* history: the page whose load failed, 0 once retryLoading was invoked
  exhausted,      \* history: a load was answered with an empty list
  listLast,       \* history: the event of the last UserList step
  factoryOpts,    \* history: the options createUserService was called with
  keyArgs,        \* getCacheKey study: two (page, results) pairs
  keyRes,         \* getCacheKey study: the keys computed and the lookup made
  keyCache,       \* getCacheKey study: a Map filled under the first pair's key
  raceSeen,       \* cacheTTL <= 0: history of the outcomes of calls for stored keys
  enableCaching,  \* createUserService's option: TRUE = CachingUserService(UserService)
  cacheTTL,       \* CachingUserService.cacheTTL
  cache,          \* CachingUserService.cache : key -> User[]
  timers,         \* pending setTimeout callbacks, in firing order
  pending,        \* UserService.fetchUsers invocations suspended at an await
  now,            \* the clock
  fetchCount,     \* calls of the global fetch() so far
  nStores,        \* cache.set calls so far
  nSettled,       \* history: UserService.fetchUsers invocations that have settled
  stored,         \* history: per key, the last store (time, number, response returned)
  cleared,        \* history: per key, "cleared" since the last clearCache that evicted it
  expired,        \* history: keys whose last store's own timer fired, untouched since
  failed,         \* history: keys whose last miss failed, untouched since
  last            \* history: the event of the last step

vars == <<enableCaching, cacheTTL, cache, timers, pending, now, fetchCount,
          nStores, nSettled, stored, cleared, expired, failed, last>>

NoStore == [gen |-> 0, at |-> 0, valid |-> FALSE, resp |-> Undefined]

Event(op, key, hit, net, svc, ret, notes) ==
  [op |-> op, key |-> key, hit |-> hit, net |-> net, svc |-> svc,
   ret |-> ret, notes |-> notes]
NoNet == [kind |-> "none"]

keyVars == <<keyArgs, keyRes, keyCache>>

listVars == <<users, currentPage, loading, errorRef, hasMore, inflight, phase,
              timeout, timerTable, scrollCount, quiet, nRuns, nBursts, loaded,
              failedPage, exhausted, listLast>>

allVars == <<vars, factoryOpts, keyVars, listVars, raceSeen>>

(* A CachingUserService / UserService right after construction.            *)
Fresh ==
  /\ cache = EmptyMap
  /\ timers = << >>
  /\ pending = {}
  /\ now = 0
  /\ fetchCount = 0
  /\ nStores = 0
  /\ nSettled = 0
  /\ stored = [k \in Keys |-> NoStore]
  /\ cleared = [k \in Keys |-> "none"]
  /\ expired = {}
  /\ failed = {}
  /\ last = Event("init", NoKey, FALSE, NoNet, NoOutcome, NoOutcome, {})

(* The getCacheKey study is not running.                                   *)
NoKeyRes == [stage |-> "off"]
KeyIdle == keyArgs = << >> /\ keyRes = NoKeyRes /\ keyCache = EmptyMap

(* No outcome of the cacheTTL <= 0 race has been recorded.                 *)
RaceIdle == raceSeen = {}

ListEvent(op, event, geometry, issued, outcome) ==
  [op |-> op, event |-> event, geometry |-> geometry, issued |-> issued,
   outcome |-> outcome]

(* UserList after setup(): the refs as declared (lines 71-91), nothing in  *)
(* flight, the debounce closure with `timeout` unassigned.                 *)
ListSetup ==
  /\ users = << >>
  /\ currentPage = 1
  /\ loading = FALSE
  /\ errorRef = Null
  /\ hasMore = TRUE
  /\ inflight = << >>
  /\ phase = "setup"
  /\ timeout = NoHandle
  /\ timerTable = {}
  /\ scrollCount = 0
  /\ quiet = ScrollWait
  /\ nRuns = 0
  /\ nBursts = 0
  /\ loaded = << >>
  /\ failedPage = 0
  /\ exhausted = FALSE
  /\ listLast = ListEvent("setup", 0, NoGeometry, 0, NoOutcome)

Init ==
  /\ enableCaching \in BOOLEAN
  /\ cacheTTL \in TTLs
  /\ factoryOpts = [enableCaching |-> enableCaching, cacheTTL |-> cacheTTL]
  /\ Fresh
  /\ KeyIdle
  /\ RaceIdle
  /\ ListSetup

Net(kind, status, error) == [kind |-> kind, status |-> status, error |-> error]

(* --------------------------- UserService.fetchUsers ------------------- *)
(* Up to the first await: the defaults are applied, the URL is built and   *)
(* fetch() is called once; the invocation is then suspended.               *)
UserService_fetchUsers(o, key) ==
  /\ fetchCount < MaxFetches
  /\ pending' = pending \cup
       {[id |-> fetchCount + 1, page |-> PageOf(o), results |-> ResultsOf(o), key |-> key,
         url |-> RequestUrl(PageOf(o), ResultsOf(o)), stage |-> "fetch",
         sawStore |-> FALSE]}
  /\ fetchCount' = fetchCount + 1

(* ------------------------ CachingUserService.fetchUsers --------------- *)
(* Up to its await: a hit returns at once, a miss calls the wrapped        *)
(* service through UserServiceDecorator.fetchUsers.                        *)
CachingUserService_fetchUsers(o) ==
  LET page == PageOf(o)
      results == ResultsOf(o)
      cacheKey == getCacheKey(page, results)
      notes == {n \in {"afterFailure"} : cacheKey \in failed}
                 \cup {n \in {"afterExpiry"} : cacheKey \in expired}
                 \cup {n \in {"afterClear"} : cleared[cacheKey] # "none"}
                 \cup OmittedNotes(o)
  IN /\ IF CacheHas(cache, cacheKey)
        THEN /\ last' = Event("fetchUsers", cacheKey, TRUE, NoNet, NoOutcome,
                              Resolve(HitResponse(cache, cacheKey, page, results)), notes)
             /\ timers' = TimersAfterHit(timers, cacheKey, now, cacheTTL)
             /\ UNCHANGED <<pending, fetchCount>>
        ELSE /\ UserService_fetchUsers([page |-> page, results |-> results], cacheKey)
             /\ last' = Event("fetchUsers", cacheKey, FALSE, NoNet, NoOutcome,
                              NoOutcome, notes)
             /\ UNCHANGED timers
     /\ expired' = expired \ {cacheKey}
     /\ failed' = failed \ {cacheKey}
     /\ cleared' = [cleared EXCEPT ![cacheKey] = "none"]

(* A caller invokes fetchUsers(o) on the service createUserService made.   *)
fetchUsers(o) ==
  /\ IF enableCaching
     THEN CachingUserService_fetchUsers(o)
     ELSE /\ UserService_fetchUsers(o, NoKey)
          /\ last' = Event("fetchUsers", NoKey, FALSE, NoNet, NoOutcome, NoOutcome,
                           OmittedNotes(o))
          /\ UNCHANGED <<expired, failed, cleared, timers>>
  /\ UNCHANGED <<enableCaching, cacheTTL, cache, now, nStores, nSettled, stored>>

(* The invocation c of UserService.fetchUsers settles as svc; with caching *)
(* the decorator's continuation (api.ts 135-140) runs in the same job.     *)
Settle(c, net, svc) ==
  /\ IF enableCaching /\ ShouldStore(svc)
     THEN /\ cache' = CacheSet(cache, c.key, svc.value.results)
          /\ timers' = setupCacheExpiration(timers, c.key, now, cacheTTL, nStores + 1)
          /\ nStores' = nStores + 1
          /\ pending' = { [d EXCEPT !.sawStore = @ \/ d.key = c.key] : d \in pending \ {c} }
          /\ stored' = [stored EXCEPT ![c.key] =
                          [gen |-> nStores + 1, at |-> now, valid |-> TRUE,
                           resp |-> CachingReturn(svc).value]]
          /\ expired' = expired \ {c.key}
          /\ failed' = failed \ {c.key}
          /\ cleared' = [cleared EXCEPT ![c.key] = IF @ = "none" THEN "none" ELSE "restored"]
          /\ last' = Event("settle", c.key, FALSE, net, svc, CachingReturn(svc),
                           {n \in {"replaced"} : CacheHas(cache, c.key)}
                             \cup {n \in {"overwrote"} : CacheHas(cache, c.key)
                                      /\ cache[c.key] # svc.value.results})
     ELSE /\ pending' = pending \ {c}
          /\ failed' = IF enableCaching /\ svc.type = "reject" /\ ~c.sawStore
                       THEN failed \cup {c.key} ELSE failed
          /\ last' = Event("settle", c.key, FALSE, net, svc,
                           IF enableCaching THEN CachingReturn(svc) ELSE svc, {})
          /\ UNCHANGED <<cache, timers, nStores, stored, expired, cleared>>
  /\ nSettled' = nSettled + 1
  /\ UNCHANGED <<enableCaching, cacheTTL, now, fetchCount>>

(* `await fetch(url)` resolves with a Response.                            *)
FetchResponse(c, ok, status) ==
  /\ c \in pending /\ c.stage = "fetch"
  /\ IF ok
     THEN /\ pending' = (pending \ {c}) \cup {[c EXCEPT !.stage = "json"]}
          /\ last' = Event("response", c.key, FALSE, Net("ok", status, Undefined),
                           NoOutcome, NoOutcome, {})
          /\ UNCHANGED <<enableCaching, cacheTTL, cache, timers, now, fetchCount,
                         nStores, nSettled, stored, cleared, expired, failed>>
     ELSE Settle(c, Net("status", status, Undefined), Catch(HttpError(status)))

(* `await fetch(url)` rejects.                                             *)
FetchRejected(c, error) ==
  /\ c \in pending /\ c.stage = "fetch"
  /\ Settle(c, Net("fetchRejected", 0, error), Catch(error))

(* `await response.json()` resolves with the decoded body.                 *)
JsonParsed(c, body) ==
  /\ c \in pending /\ c.stage = "json"
  /\ Settle(c, Net("body", 200, Undefined), Resolve(body))

(* `await response.json()` rejects.                                        *)
JsonRejected(c, error) ==
  /\ c \in pending /\ c.stage = "json"
  /\ Settle(c, Net("jsonRejected", 200, error), Catch(error))

(* The oldest pending expiry timer fires, at or after its due time.        *)
TimerFire ==
  /\ timers # << >>
  /\ Head(timers).due <= now
  /\ LET tm == Head(timers) IN
       /\ cache' = ExpireCallback(cache, tm.key)
       /\ expired' = IF tm.gen = stored[tm.key].gen THEN expired \cup {tm.key} ELSE expired
       /\ last' = Event("timer", tm.key, CacheHas(cache, tm.key), NoNet, NoOutcome,
                        NoOutcome,
                        {n \in {"stale"} : CacheHas(cache, tm.key) /\ tm.gen # stored[tm.key].gen})
  /\ timers' = Tail(timers)
  /\ UNCHANGED <<enableCaching, cacheTTL, pending, now, fetchCount, nStores,
                 nSettled, stored, cleared, failed>>

clearCache ==
  /\ enableCaching
  /\ cache' = CacheClear(cache)
  /\ stored' = [k \in Keys |-> [stored[k] EXCEPT !.valid = FALSE]]
  /\ cleared' = [k \in Keys |-> IF CacheHas(cache, k) THEN "cleared" ELSE cleared[k]]
  /\ last' = Event("clearCache", NoKey, cache # EmptyMap, NoNet, NoOutcome, NoOutcome, {})
  /\ UNCHANGED <<enableCaching, cacheTTL, timers, pending, now, fetchCount,
                 nStores, nSettled, expired, failed>>

invalidatePage(page, results) ==
  /\ enableCaching
  /\ LET key == getCacheKey(page, results) IN
       /\ cache' = CacheDelete(cache, key)
       /\ stored' = [stored EXCEPT ![key].valid = FALSE]
       /\ last' = Event("invalidatePage", key, CacheHas(cache, key), NoNet, NoOutcome,
                        NoOutcome, {})
  /\ UNCHANGED <<enableCaching, cacheTTL, timers, pending, now, fetchCount,
                 nStores, nSettled, cleared, expired, failed>>

Tick ==
  /\ now < MaxTime
  /\ now' = now + 1
  /\ last' = Event("tick", NoKey, FALSE, NoNet, NoOutcome, NoOutcome, {})
  /\ UNCHANGED <<enableCaching, cacheTTL, cache, timers, pending, fetchCount,
                 nStores, nSettled, stored, cleared, expired, failed>>

(* What a step of the services leaves alone.                               *)
ServiceStep == UNCHANGED <<factoryOpts, keyVars, listVars, raceSeen>>

Next ==
  \/ \E o \in OptionsSet : fetchUsers(o) /\ ServiceStep
  \/ \E c \in pending, ok \in BOOLEAN, status \in Statuses :
       FetchResponse(c, ok, status) /\ ServiceStep
  \/ \E c \in pending, error \in FetchFailures : FetchRejected(c, error) /\ ServiceStep
  \/ \E c \in pending : \E body \in Bodies(c.page, c.results) :
       JsonParsed(c, body) /\ ServiceStep
  \/ \E c \in pending, error \in JsonFailures : JsonRejected(c, error) /\ ServiceStep
  \/ TimerFire /\ ServiceStep
  \/ clearCache /\ ServiceStep
  \/ \E page \in Pages, results \in Sizes : invalidatePage(page, results) /\ ServiceStep
  \/ Tick /\ ServiceStep

Spec == Init /\ [][Next]_vars

(* The service is the one createUserService(fo) returns.                   *)
InitFactory ==
  /\ factoryOpts \in FactoryOptionsSet
  /\ enableCaching = (createUserService(factoryOpts).class = "CachingUserService")
  /\ cacheTTL = CacheTTLOf(factoryOpts)
  /\ Fresh
  /\ KeyIdle
  /\ RaceIdle
  /\ ListSetup

(* createUserService returns its product as a BaseUserService: callers    *)
(* reach fetchUsers, and clearCache through the `"clearCache" in service`  *)
(* test of UserList's cleanup; invalidatePage is out of their reach.       *)
NextFactory ==
  \/ \E o \in OptionsSet : fetchUsers(o) /\ ServiceStep
  \/ \E c \in pending, ok \in BOOLEAN, status \in Statuses :
       FetchResponse(c, ok, status) /\ ServiceStep
  \/ \E c \in pending, error \in FetchFailures : FetchRejected(c, error) /\ ServiceStep
  \/ \E c \in pending : \E body \in Bodies(c.page, c.results) :
       JsonParsed(c, body) /\ ServiceStep
  \/ \E c \in pending, error \in JsonFailures : JsonRejected(c, error) /\ ServiceStep
  \/ TimerFire /\ ServiceStep
  \/ clearCache /\ ServiceStep
  \/ Tick /\ ServiceStep

SpecFactory == InitFactory /\ [][NextFactory]_vars

(* ----------------------- expiry when timers fire ----------------------- *)
(* The caching service with a host whose timers fire when due: time passes *)
(* while timers are waiting and none of them is due, and a timer that is   *)
(* due runs before the clock moves on.                                     *)
InitExpiry ==
  /\ enableCaching = TRUE
  /\ cacheTTL \in TTLs
  /\ factoryOpts = [enableCaching |-> enableCaching, cacheTTL |-> cacheTTL]
  /\ Fresh
  /\ KeyIdle
  /\ RaceIdle
  /\ ListSetup

(* One tick passes while timers are waiting and none is due.               *)
ExpiryTick ==
  /\ timers # << >>
  /\ \A i \in 1 .. Len(timers) : timers[i].due > now
  /\ now' = now + 1
  /\ last' = Event("tick", NoKey, FALSE, NoNet, NoOutcome, NoOutcome, {})
  /\ UNCHANGED <<enableCaching, cacheTTL, cache, timers, pending, fetchCount,
                 nStores, nSettled, stored, cleared, expired, failed>>

(* Calls that spell out both options; the answers of the network are one  *)
(* of each kind, what a failure carries being of no concern to the cache.  *)
ExplicitOptions == {o \in OptionsSet : DOMAIN o = {"page", "results"}}

NextExpiry ==
  \/ \E o \in ExplicitOptions : fetchUsers(o) /\ ServiceStep
  \/ \E c \in pending, ok \in BOOLEAN :
       FetchResponse(c, ok, IF ok THEN 200 ELSE 500) /\ ServiceStep
  \/ \E c \in pending : FetchRejected(c, ErrorOf("Failed to fetch")) /\ ServiceStep
  \/ \E c \in pending : \E body \in Bodies(c.page, c.results) :
       JsonParsed(c, body) /\ ServiceStep
  \/ \E c \in pending : JsonRejected(c, ErrorOf("Unexpected token")) /\ ServiceStep
  \/ TimerFire /\ ServiceStep
  \/ clearCache /\ ServiceStep
  \/ \E page \in Pages, results \in Sizes : invalidatePage(page, results) /\ ServiceStep
  \/ ExpiryTick /\ ServiceStep

ExpiryFairness ==
  /\ WF_allVars(TimerFire /\ ServiceStep)
  /\ WF_allVars(ExpiryTick /\ ServiceStep)

SpecExpiry == InitExpiry /\ [][NextExpiry]_allVars /\ ExpiryFairness

(* ----------------------------- cacheTTL <= 0 --------------------------- *)
(* A CachingUserService made with a zero or negative cacheTTL. Every timer *)
(* is due as soon as it is set, so no clock step is needed; the callback   *)
(* still runs as a job of its own, after the job that set it.              *)
NonPositiveTTLs == {0, -1}

InitZeroTTL ==
  /\ enableCaching = TRUE
  /\ cacheTTL \in NonPositiveTTLs
  /\ factoryOpts = [enableCaching |-> enableCaching, cacheTTL |-> cacheTTL]
  /\ Fresh
  /\ KeyIdle
  /\ RaceIdle
  /\ ListSetup

(* History: a call for a key whose last store's timer is still pending was *)
(* a hit; a call for a key whose last store's timer has fired was a miss.  *)
RaceSeenAfter(ev, ownPending, wasExpired) ==
  IF ev.op # "fetchUsers" THEN raceSeen
  ELSE raceSeen
         \cup {n \in {"hitBeforeTimer"} : ev.hit /\ ownPending}
         \cup {n \in {"missAfterTimer"} : ~ev.hit /\ wasExpired}

ZeroStep ==
  /\ UNCHANGED <<factoryOpts, keyVars, listVars>>
  /\ raceSeen' = RaceSeenAfter(last',
                     last'.key \in Keys /\ stored[last'.key].valid
                       /\ \E i \in 1 .. Len(timers) : timers[i].gen = stored[last'.key].gen,
                     last'.key \in expired)

NextZeroTTL ==
  \/ \E o \in ExplicitOptions : fetchUsers(o) /\ ZeroStep
  \/ \E c \in pending, ok \in BOOLEAN :
       FetchResponse(c, ok, IF ok THEN 200 ELSE 500) /\ ZeroStep
  \/ \E c \in pending : FetchRejected(c, ErrorOf("Failed to fetch")) /\ ZeroStep
  \/ \E c \in pending : \E body \in Bodies(c.page, c.results) :
       JsonParsed(c, body) /\ ZeroStep
  \/ \E c \in pending : JsonRejected(c, ErrorOf("Unexpected token")) /\ ZeroStep
  \/ TimerFire /\ ZeroStep
  \/ clearCache /\ ZeroStep
  \/ \E page \in Pages, results \in Sizes : invalidatePage(page, results) /\ ZeroStep

SpecZeroTTL == InitZeroTTL /\ [][NextZeroTTL]_allVars

(* ------------------------- getCacheKey on integers --------------------- *)
(* getCacheKey is applied to two integer pairs: an entry is stored under   *)
(* the key of the first pair (api.ts 136), then looked up under the key of *)
(* the second (api.ts 122-124).                                            *)
KeyInts == {-1, 0, 1, 10, 11, 110}

InitKey ==
  /\ keyArgs \in [p1 : KeyInts, r1 : KeyInts, p2 : KeyInts, r2 : KeyInts]
  /\ keyRes = [stage |-> "start"]
  /\ keyCache = EmptyMap
  /\ RaceIdle
  /\ enableCaching = TRUE
  /\ cacheTTL = LongTTL
  /\ factoryOpts = [enableCaching |-> TRUE, cacheTTL |-> LongTTL]
  /\ Fresh
  /\ ListSetup

KeyStore ==
  /\ keyRes.stage = "start"
  /\ LET k1 == getCacheKey(keyArgs.p1, keyArgs.r1) IN
       /\ keyCache' = CacheSet(keyCache, k1, <<"u1">>)
       /\ keyRes' = [stage |-> "stored", k1 |-> k1]
  /\ UNCHANGED <<vars, factoryOpts, listVars, raceSeen, keyArgs>>

KeyLookup ==
  /\ keyRes.stage = "stored"
  /\ LET k2 == getCacheKey(keyArgs.p2, keyArgs.r2) IN
       keyRes' = [stage |-> "looked", k1 |-> keyRes.k1, k2 |-> k2,
                  hit |-> CacheHas(keyCache, k2)]
  /\ UNCHANGED <<vars, factoryOpts, listVars, raceSeen, keyArgs, keyCache>>

NextKey == KeyStore \/ KeyLookup

SpecKey == InitKey /\ [][NextKey]_allVars

(* ------------------------ UserList with its debounce ------------------- *)
(* Each action is one job of the event loop. The service is the one        *)
(* UserList creates (lines 57-60); its answers are drawn from              *)
(* ServiceOutcomes, its own state is not tracked here.                     *)
InitList ==
  /\ ListSetup
  /\ factoryOpts = [enableCaching |-> TRUE, cacheTTL |-> DefaultCacheTTL]
  /\ enableCaching = (createUserService(factoryOpts).class = "CachingUserService")
  /\ cacheTTL = CacheTTLOf(factoryOpts)
  /\ Fresh
  /\ KeyIdle
  /\ RaceIdle

ListStep == UNCHANGED <<vars, factoryOpts, keyVars, raceSeen>>

(* The page loadUsers requests when called with hasMore = hm, 0 when it    *)
(* returns at line 98.                                                     *)
IssuedPage(hm) == IF LoadGuard(loading, hm) THEN 0 ELSE currentPage

(* loadUsers() up to its await, called when hasMore.value is hm and        *)
(* error.value is er.                                                      *)
loadUsers(hm, er) ==
  /\ hasMore' = hm
  /\ IF LoadGuard(loading, hm)
     THEN /\ loading' = loading
          /\ errorRef' = er
          /\ inflight' = inflight
     ELSE /\ loading' = TRUE
          /\ errorRef' = Null
          /\ inflight' = Append(inflight, [page |-> currentPage, results |-> ListPageSize])

onMounted ==
  /\ phase = "setup"
  /\ phase' = "mounted"
  /\ loadUsers(hasMore, errorRef)
  /\ listLast' = ListEvent("onMounted", 0, NoGeometry, IssuedPage(hasMore), NoOutcome)
  /\ UNCHANGED <<users, currentPage, timeout, timerTable, scrollCount, quiet, nRuns,
                 nBursts, loaded, failedPage, exhausted>>
  /\ ListStep

(* A scroll event reaches the container: handleScroll(event), that is the  *)
(* debounce's executedFunction. The event is named by its number.          *)
handleScroll ==
  /\ phase = "mounted"
  /\ scrollCount < MaxScrolls
  /\ LET event == scrollCount + 1 IN
       /\ scrollCount' = event
       /\ timerTable' = executedFunction(timerTable, timeout, event, event, ScrollWait)
       /\ timeout' = event
       /\ listLast' = ListEvent("handleScroll", event, NoGeometry, 0, NoOutcome)
  /\ quiet' = 0
  /\ nBursts' = IF timerTable = {} THEN nBursts + 1 ELSE nBursts
  /\ UNCHANGED <<users, currentPage, loading, errorRef, hasMore, inflight, phase,
                 nRuns, loaded, failedPage, exhausted>>
  /\ ListStep

(* The timer t fires: `later` runs the scroll check with the event it      *)
(* closed over; g is the container's geometry at that moment.              *)
later(t, g) ==
  /\ t \in timerTable /\ t.left = 0
  /\ \A u \in timerTable : u.id >= t.id
  /\ timerTable' = laterTable(timerTable, timeout, t)
  /\ nRuns' = nRuns + 1
  /\ IF NearBottom(g)
     THEN /\ loadUsers(hasMore, errorRef)
          /\ listLast' = ListEvent("scrollCheck", t.args, g, IssuedPage(hasMore), NoOutcome)
     ELSE /\ listLast' = ListEvent("scrollCheck", t.args, g, 0, NoOutcome)
          /\ UNCHANGED <<loading, errorRef, hasMore, inflight>>
  /\ UNCHANGED <<users, currentPage, phase, timeout, scrollCount, quiet, nBursts,
                 loaded, failedPage, exhausted>>
  /\ ListStep

(* The await of the i-th suspended loadUsers settles as `outcome`; the     *)
(* rest of the try block, the catch block and the finally block run.       *)
loadUsersSettled(i, outcome) ==
  /\ i \in 1 .. Len(inflight)
  /\ inflight' = SubSeq(inflight, 1, i - 1) \o SubSeq(inflight, i + 1, Len(inflight))
  /\ loading' = FALSE
  /\ IF outcome.type = "reject"
     THEN /\ errorRef' = ErrorMessageOf(outcome.value)
          /\ hasMore' = HasMoreAfterFailure(hasMore)
          /\ failedPage' = inflight[i].page
          /\ UNCHANGED <<users, currentPage, loaded, exhausted>>
     ELSE IF Truthy(outcome.value) /\ Len(outcome.value.results) = 0
     THEN /\ hasMore' = HasMoreAfterEmpty(hasMore)
          /\ exhausted' = TRUE
          /\ UNCHANGED <<users, currentPage, errorRef, loaded, failedPage>>
     ELSE IF Truthy(outcome.value)
     THEN /\ currentPage' = currentPage + 1
          /\ users' = AppendUsers(users, outcome.value.results)
          /\ loaded' = Append(loaded, [page |-> inflight[i].page,
                                       results |-> outcome.value.results])
          /\ UNCHANGED <<errorRef, hasMore, failedPage, exhausted>>
     ELSE UNCHANGED <<users, currentPage, errorRef, hasMore, loaded, failedPage,
                      exhausted>>
  /\ listLast' = ListEvent("settled", 0, NoGeometry, inflight[i].page, outcome)
  /\ UNCHANGED <<phase, timeout, timerTable, scrollCount, quiet, nRuns, nBursts>>
  /\ ListStep

(* A click on the Retry button, which the template renders while error is  *)
(* set (lines 21-32).                                                      *)
retryLoading ==
  /\ phase = "mounted"
  /\ errorRef # Null
  /\ loadUsers(TRUE, Null)
  /\ failedPage' = 0
  /\ listLast' = ListEvent("retryLoading", 0, NoGeometry, IssuedPage(TRUE), NoOutcome)
  /\ UNCHANGED <<users, currentPage, phase, timeout, timerTable, scrollCount, quiet,
                 nRuns, nBursts, loaded, exhausted>>
  /\ ListStep

(* cleanup(): the component leaves the page; timers and suspended loads    *)
(* live on.                                                                *)
onUnmounted ==
  /\ phase = "mounted"
  /\ phase' = "unmounted"
  /\ listLast' = ListEvent("onUnmounted", 0, NoGeometry, 0, NoOutcome)
  /\ UNCHANGED <<users, currentPage, loading, errorRef, hasMore, inflight, timeout,
                 timerTable, scrollCount, quiet, nRuns, nBursts, loaded, failedPage, exhausted>>
  /\ ListStep

(* One tick passes while a timer is waiting.                               *)
ListTick ==
  /\ \E t \in timerTable : t.left > 0
  /\ timerTable' = { [t EXCEPT !.left = IF @ > 0 THEN @ - 1 ELSE 0] : t \in timerTable }
  /\ quiet' = IF quiet < ScrollWait THEN quiet + 1 ELSE quiet
  /\ listLast' = ListEvent("tick", 0, NoGeometry, 0, NoOutcome)
  /\ UNCHANGED <<users, currentPage, loading, errorRef, hasMore, inflight, phase,
                 timeout, scrollCount, nRuns, nBursts, loaded, failedPage, exhausted>>
  /\ ListStep

NextList ==
  \/ onMounted
  \/ handleScroll
  \/ \E t \in timerTable, g \in Geometries : later(t, g)
  \/ \E i \in 1 .. Len(inflight) : \E outcome \in ServiceOutcomes(inflight[i].page) :
       loadUsersSettled(i, outcome)
  \/ retryLoading
  \/ onUnmounted
  \/ ListTick

SpecList == InitList /\ [][NextList]_allVars

(* The host lets time pass while a timer waits and runs a timer that is    *)
(* due; scroll events, clicks and network answers are under no obligation. *)
ListFairness ==
  /\ WF_allVars(ListTick)
  /\ WF_allVars(\E t \in timerTable, g \in Geometries : later(t, g))

SpecListFair == SpecList /\ ListFairness

ListTypeOK ==
  /\ currentPage \in 1 .. LastPage
  /\ scrollCount \in 0 .. MaxScrolls
  /\ nRuns <= scrollCount
  /\ quiet \in 0 .. ScrollWait
  /\ phase \in {"setup", "mounted", "unmounted"}

TypeOK ==
  /\ DOMAIN cache \subseteq Keys
  /\ fetchCount \in 0 .. MaxFetches
  /\ fetchCount = nSettled + Cardinality(pending)
  /\ now \in 0 .. MaxTime
  /\ Len(timers) <= nStores

(* ====================== properties of the services ===================== *)

IsFailure(net) == net.kind \in {"status", "fetchRejected", "jsonRejected"}

(* C1: if a miss for key K completed successfully at time t and neither    *)
(* clearCache() nor invalidatePage(K) happened since, then at every time   *)
(* before t + cacheTTL K is in the cache, so that a fetchUsers(K) call     *)
(* made then is served without invoking the wrapped service - after any    *)
(* sequence of earlier operations on the instance.                         *)
C1_ServedFromCacheWithinTTL ==
  \A k \in Keys :
    (stored[k].valid /\ now < stored[k].at + cacheTTL) => CacheHas(cache, k)

(* C2: no expiry timer stays pending for an entry that was invalidated,    *)
(* cleared or replaced: every pending timer belongs to the entry that is   *)
(* in the cache under its key now.                                         *)
C2_NoTimerOfEvictedEntry ==
  \A i \in 1 .. Len(timers) :
    CacheHas(cache, timers[i].key) /\ timers[i].gen = stored[timers[i].key].gen

C4_ExpiredKeyIsRefetched ==
  [][ /\ \A k \in expired' : ~CacheHas(cache', k)
      /\ (last'.op = "fetchUsers" /\ last'.key \in expired)
         => /\ ~last'.hit
            /\ fetchCount' = fetchCount + 1
    ]_vars

C4_Witness ==
  /\ last.op = "fetchUsers" /\ "afterExpiry" \in last.notes /\ ~last.hit
  /\ now >= stored[last.key].at + cacheTTL
  /\ stored[last.key].gen > 0

C6_ClearedKeyAlwaysRefetched ==
  [][ /\ (last'.op = "clearCache") => cache' = EmptyMap
      /\ (last'.op = "fetchUsers" /\ enableCaching /\ cleared[last'.key] # "none")
         => ~last'.hit
    ]_vars

(* C6 amended: right after clearCache() the cache is empty, and for every  *)
(* key cached before the clear the next fetchUsers call for that key is a  *)
(* miss that invokes the wrapped service, unless a miss for that key that  *)
(* was in flight when clearCache ran has stored its result in between.     *)
C6_ClearedKeyRefetchedUnlessRestored ==
  [][ /\ (last'.op = "clearCache") => cache' = EmptyMap
      /\ (last'.op = "fetchUsers" /\ enableCaching /\ cleared[last'.key] = "cleared")
         => /\ ~last'.hit
            /\ fetchCount' = fetchCount + 1
    ]_vars

C6_Witness ==
  /\ last.op = "fetchUsers" /\ "afterClear" \in last.notes /\ ~last.hit
  /\ stored[last.key].gen > 0

(* C7: a cache hit returns a response equal to the one the miss that       *)
(* populated the entry returned (same user list and same info).            *)
C7_HitEqualsPopulatingMiss ==
  (last.op = "fetchUsers" /\ last.hit) => last.ret = Resolve(stored[last.key].resp)

(* C8: a fetchUsers(K) call made while K is not cached always invokes the  *)
(* wrapped service, also when another miss for K is in flight; every miss  *)
(* that resolves with a response stores its user list under K and sets a   *)
(* timer, replacing what an earlier miss stored (the last write wins).     *)
C8_MissesNotDeduplicated ==
  [][ /\ (last'.op = "fetchUsers" /\ enableCaching /\ ~CacheHas(cache, last'.key))
         => /\ fetchCount' = fetchCount + 1
            /\ Cardinality(pending') = Cardinality(pending) + 1
      /\ (last'.op = "settle" /\ enableCaching /\ last'.svc.type = "resolve"
            /\ last'.svc.value.tag = "ApiResponse")
         => /\ CacheHas(cache', last'.key)
            /\ cache'[last'.key] = last'.svc.value.results
            /\ Len(timers') = Len(timers) + 1
            /\ timers'[Len(timers')].key = last'.key
    ]_vars

C8_Witness ==
  /\ last.op = "settle" /\ "overwrote" \in last.notes
  /\ cache[last.key] = last.ret.value.results
  /\ fetchCount = 2 /\ nStores = 2

(* C9: UserService.fetchUsers rejects with the failure of the network      *)
(* call, of the status check or of body decoding, whatever value that      *)
(* failure carries; it never resolves after a failure.                     *)
C9_FailureAlwaysRejects ==
  (last.op = "settle" /\ IsFailure(last.net))
    => /\ last.svc.type = "reject"
       /\ last.net.kind # "status" => last.svc.value = last.net.error

(* C10: every UserService.fetchUsers invocation has issued exactly one     *)
(* fetch(); on a non-success status it rejects with an Error whose message *)
(* is 'HTTP error! status: <status>', and settling issues no request, in   *)
(* UserService and in the caching decorator.                               *)
C10_OneRequestNoRetry ==
  [][ /\ fetchCount' = nSettled' + Cardinality(pending')
      /\ (last'.op = "settle") => fetchCount' = fetchCount
      /\ (last'.op = "settle" /\ last'.net.kind = "status")
         => /\ last'.svc.type = "reject"
            /\ last'.svc.value.tag = "Error"
            /\ last'.svc.value.message =
                 (IF last'.net.status = 404 THEN "HTTP error! status: 404"
                  ELSE "HTTP error! status: 500")
            /\ last'.ret = last'.svc
            /\ \A c \in pending' : c \in pending
    ]_vars

C10_Witness ==
  /\ last.op = "settle" /\ last.net.kind = "status" /\ last.net.status = 500
  /\ last.ret = Reject(ErrorOf("HTTP error! status: 500"))
  /\ fetchCount = nSettled

(* C14: on a cache hit the info of the returned response has the page and  *)
(* page size that were requested, and the seed and version of the upstream *)
(* response that was stored for the entry.                                 *)
C14_HitInfoOfStoredResponse ==
  (last.op = "fetchUsers" /\ last.hit)
    => /\ getCacheKey(last.ret.value.info.page, last.ret.value.info.results) = last.key
       /\ last.ret.value.info.seed = stored[last.key].resp.info.seed
       /\ last.ret.value.info.version = stored[last.key].resp.info.version

(* C15: when the expiry timer scheduled for key K fires, K's entry is      *)
(* removed in that very step (nothing happens if K is absent); the entries *)
(* of all other keys, all other pending timers and the misses in flight    *)
(* are unchanged.                                                          *)
C15_TimerRemovesExactlyItsKey ==
  [][ (last'.op = "timer")
        => /\ timers # << >>
           /\ last'.key = Head(timers).key
           /\ Head(timers).due <= now
           /\ ~CacheHas(cache', last'.key)
           /\ DOMAIN cache' = DOMAIN cache \ {last'.key}
           /\ \A k \in DOMAIN cache' : cache'[k] = cache[k]
           /\ timers' = Tail(timers)
           /\ pending' = pending
           /\ (~CacheHas(cache, last'.key)) => cache' = cache
    ]_vars

C15_Witness ==
  /\ last.op = "timer" /\ last.hit
  /\ ~CacheHas(cache, last.key)
  /\ cache # EmptyMap
  /\ timers # << >>

(* C16: fetchUsers called with page or results omitted behaves as page = 1 *)
(* and results = 10: the request UserService sends is the one for          *)
(* page=1&results=10&seed=abc, and CachingUserService uses the cache key   *)
(* of an explicit (1, 10) call, so the call is a hit exactly when that     *)
(* key is cached.                                                          *)
C16_OmittedOptionsDefault ==
  [][ (last'.op = "fetchUsers")
        => LET noPage == "pageOmitted" \in last'.notes
               noResults == "resultsOmitted" \in last'.notes
           IN /\ (~last'.hit)
                   => \E c \in pending' \ pending :
                        /\ noPage => c.page = 1
                        /\ noResults => c.results = 10
                        /\ (noPage /\ noResults)
                             => c.url = "https://randomuser.me/api/?page=1&results=10&seed=abc"
                        /\ c.url = RequestUrl(c.page, c.results)
              /\ (enableCaching /\ noPage /\ noResults)
                   => /\ last'.key = "page_1_10"
                      /\ last'.key = getCacheKey(1, 10)
                      /\ last'.hit <=> CacheHas(cache, getCacheKey(1, 10))
                      /\ last'.hit => last'.ret.value.results = cache[getCacheKey(1, 10)]
    ]_vars

C16_Witness ==
  /\ last.op = "fetchUsers" /\ last.hit
  /\ {"pageOmitted", "resultsOmitted"} \subseteq last.notes
  /\ last.key = getCacheKey(1, 10)
  /\ stored[last.key].valid


(* No expiry timer has fired on the service since it was made.            *)
NoTimerFiredYet == Len(timers) = nStores

C13_KeyInjective ==
  /\ keyRes.stage \in {"stored", "looked"}
       => /\ keyRes.k1 = getCacheKey(keyArgs.p1, keyArgs.r1)
          /\ DOMAIN keyCache = {keyRes.k1}
  /\ keyRes.stage = "looked"
       => LET same == keyArgs.p1 = keyArgs.p2 /\ keyArgs.r1 = keyArgs.r2
          IN /\ (keyRes.k1 = keyRes.k2) <=> same
             /\ keyRes.hit <=> same

C13_Witness ==
  /\ keyRes.stage = "looked"
  /\ keyArgs.p1 = 1 /\ keyArgs.r1 = 10
  /\ keyArgs.p2 = 11 /\ keyArgs.r2 = 0
  /\ keyRes.k1 = "page_1_10" /\ keyRes.k2 = "page_11_0"
  /\ ~keyRes.hit


(* C22: a cache hit changes no state of the service: the entries, the     *)
(* pending timers with their due times (the TTL runs from the store), the  *)
(* misses in flight and the number of requests are what they were.         *)
C22_HitChangesNothing ==
  [][ (last'.op = "fetchUsers" /\ last'.hit)
        => /\ CacheHas(cache, last'.key)
           /\ cache' = cache
           /\ timers' = timers
           /\ pending' = pending
           /\ fetchCount' = fetchCount
           /\ nStores' = nStores
           /\ nSettled' = nSettled
           /\ stored' = stored
           /\ now' = now
           /\ cacheTTL' = cacheTTL
    ]_vars

C22_Witness ==
  /\ last.op = "fetchUsers" /\ last.hit
  /\ now > stored[last.key].at
  /\ Len(timers) = 1
  /\ timers[1] = [key |-> last.key, due |-> stored[last.key].at + cacheTTL,
                  gen |-> stored[last.key].gen]
  /\ pending # {}

(* C23: clearCache() and invalidatePage() leave the misses in flight (and  *)
(* the timers) alone; a miss for K that was in flight when K was cleared   *)
(* or invalidated stores its result under K and schedules an expiry timer  *)
(* when it resolves with a response.                                       *)
C23_EvictionSparesMissesInFlight ==
  [][ /\ (last'.op \in {"clearCache", "invalidatePage"})
         => /\ pending' = pending
            /\ timers' = timers
            /\ fetchCount' = fetchCount
      /\ ( /\ last'.op = "settle" /\ enableCaching
           /\ last'.svc.type = "resolve" /\ last'.svc.value.tag = "ApiResponse"
           /\ \/ cleared[last'.key] = "cleared"
              \/ last.op = "clearCache"
              \/ last.op = "invalidatePage" /\ last.key = last'.key )
         => /\ CacheHas(cache', last'.key)
            /\ cache'[last'.key] = last'.svc.value.results
            /\ timers' = Append(timers, [key |-> last'.key, due |-> now + cacheTTL,
                                         gen |-> nStores + 1])
            /\ last'.ret = last'.svc
    ]_vars

C23_Witness ==
  /\ last.op = "settle" /\ enableCaching
  /\ last.key \in Keys
  /\ cleared[last.key] = "restored"
  /\ CacheHas(cache, last.key)
  /\ cache[last.key] = last.ret.value.results
  /\ stored[last.key].gen = 2
  /\ timers # << >> /\ timers[Len(timers)].gen = 2

(* The timer set by the last store of k is pending, due cacheTTL after it. *)
OwnTimerPending(k) ==
  \E i \in 1 .. Len(timers) :
    /\ timers[i].key = k
    /\ timers[i].gen = stored[k].gen
    /\ timers[i].due = stored[k].at + cacheTTL

(* No pending timer is past its due time.                                  *)
TimersPunctual == \A i \in 1 .. Len(timers) : timers[i].due >= now

(* C21: every entry in the cache has a pending expiry timer for its key,   *)
(* the one its store scheduled; with timers that fire when due no timer is *)
(* ever overdue, no entry is older than cacheTTL, and the cache is         *)
(* eventually empty for good (the fetches of a behaviour being finite).    *)
C21_EntriesExpire ==
  /\ [](/\ TimersPunctual
         /\ \A k \in DOMAIN cache :
              /\ OwnTimerPending(k)
              /\ now <= stored[k].at + cacheTTL)
  /\ <>[](cache = EmptyMap)

C21_Witness ==
  /\ last.op = "timer" /\ last.hit
  /\ cache = EmptyMap /\ timers = << >>
  /\ pending = {} /\ fetchCount = MaxFetches
  /\ nStores = 2
  /\ now = stored[last.key].at + cacheTTL

(* The entry of key k is the one its last store wrote, the timer of that   *)
(* store has not fired, and no timer of an earlier store of k was left to  *)
(* fire on it: the call follows the store directly, or the store was the   *)
(* first of the service.                                                   *)
StoredAndTimerNotFired(k) ==
  /\ stored[k].valid
  /\ \E i \in 1 .. Len(timers) : timers[i].key = k /\ timers[i].gen = stored[k].gen
  /\ \/ last.op = "settle" /\ last.key = k /\ ShouldStore(last.svc)
     \/ stored[k].gen = 1

C11_DebounceRunsOncePerBurst ==
  [][ /\ (listLast'.op = "handleScroll")
         => /\ timerTable' = {[id |-> listLast'.event, left |-> ScrollWait,
                               args |-> listLast'.event]}
            /\ nRuns' = nRuns
            /\ inflight' = inflight
      /\ (listLast'.op = "scrollCheck")
         => /\ quiet = ScrollWait
            /\ listLast'.event = scrollCount
            /\ nRuns' = nRuns + 1
            /\ timerTable' = {}
      /\ (listLast'.op \notin {"scrollCheck"}) => nRuns' = nRuns
      /\ nRuns' + (IF timerTable' = {} THEN 0 ELSE 1) = nBursts'
    ]_allVars
  /\ \A n \in 1 .. MaxScrolls :
       (timeout = n /\ timerTable # {})
         ~> (timeout > n \/ (nRuns = nBursts /\ listLast.event = n))

C11_Witness ==
  /\ listLast.op = "scrollCheck"
  /\ listLast.event = 3 /\ scrollCount = 3
  /\ nRuns = 2 /\ nBursts = 2
  /\ timerTable = {}

(* C12: a debounced scroll check requests a page exactly when              *)
(* scrollHeight - scrollTop <= clientHeight + 100, loading is false and    *)
(* hasMore is true, and the page requested is currentPage; if one of the   *)
(* three is false no request is issued and no state of the list changes.   *)
C12_ScrollCheckRequestsCurrentPage ==
  [][ (listLast'.op = "scrollCheck")
        => LET g == listLast'.geometry IN
           IF g.scrollHeight - g.scrollTop <= g.clientHeight + 100
                /\ ~loading /\ hasMore
           THEN /\ inflight' = Append(inflight, [page |-> currentPage, results |-> 10])
                /\ loading'
                /\ UNCHANGED <<users, currentPage, hasMore, errorRef>>
           ELSE UNCHANGED <<users, currentPage, loading, errorRef, hasMore, inflight>>
    ]_allVars

C12_Witness ==
  /\ listLast.op = "scrollCheck"
  /\ listLast.geometry.scrollTop = 400
  /\ listLast.issued = 2 /\ currentPage = 2
  /\ inflight = <<[page |-> 2, results |-> 10]>>

(* C18: at most one request issued by loadUsers is in flight, and loading  *)
(* is true exactly while it is; it is false again once the request has     *)
(* resolved with data, with an empty list or with nothing, or rejected.    *)
C18_OneLoadInFlight ==
  /\ Len(inflight) <= 1
  /\ loading <=> Len(inflight) = 1
  /\ (listLast.op = "settled") => (~loading /\ inflight = << >>)

C18_Witness ==
  /\ listLast.op = "scrollCheck"
  /\ listLast.geometry.scrollTop = 500
  /\ hasMore /\ loading
  /\ listLast.issued = 0
  /\ Len(inflight) = 1

(* C19: when a loadUsers request rejects, error is set to the message,     *)
(* hasMore becomes false, currentPage and users are unchanged; until       *)
(* retryLoading is invoked no step issues a request; retryLoading clears   *)
(* error, sets hasMore and requests the page that failed.                  *)
C19_FailureStopsLoadingUntilRetry ==
  [][ /\ (listLast'.op = "settled" /\ listLast'.outcome.type = "reject")
         => /\ errorRef' = [tag |-> "string", value |-> listLast'.outcome.value.message]
            /\ ~hasMore'
            /\ UNCHANGED <<users, currentPage>>
            /\ failedPage' = currentPage
      /\ (failedPage # 0 /\ listLast'.op # "retryLoading") => inflight' = inflight
      /\ (failedPage # 0 /\ listLast'.op = "retryLoading")
         => /\ errorRef' = Null
            /\ hasMore'
            /\ inflight' = <<[page |-> failedPage, results |-> 10]>>
            /\ UNCHANGED <<users, currentPage>>
    ]_allVars

C19_Witness ==
  /\ listLast.op = "retryLoading"
  /\ listLast.issued = 2 /\ currentPage = 2
  /\ nRuns >= 1
  /\ errorRef = Null /\ hasMore /\ loading

RECURSIVE Flatten(_)
Flatten(pages) ==
  IF pages = << >> THEN << >> ELSE Head(pages).results \o Flatten(Tail(pages))

(* C20: users is the concatenation, in page order, of the results of the   *)
(* pages 1 .. currentPage - 1, each appended once; currentPage grows by 1  *)
(* on each response with a non-empty list and stays as it is on every      *)
(* other step.                                                             *)
C20_UsersArePagesInOrder ==
  [][ /\ Len(loaded') = currentPage' - 1
      /\ \A i \in 1 .. Len(loaded') : loaded'[i].page = i
      /\ users' = Flatten(loaded')
      /\ IF /\ listLast'.op = "settled"
            /\ listLast'.outcome.type = "resolve"
            /\ listLast'.outcome.value.tag = "ApiResponse"
            /\ listLast'.outcome.value.results # << >>
         THEN /\ currentPage' = currentPage + 1
              /\ users' = users \o listLast'.outcome.value.results
              /\ listLast'.issued = currentPage
         ELSE UNCHANGED <<users, currentPage>>
    ]_allVars

C20_Witness ==
  /\ listLast.op = "settled"
  /\ currentPage = 3
  /\ users = <<"p1a", "p1b", "p2c">>
  /\ loaded = <<[page |-> 1, results |-> <<"p1a", "p1b">>],
                [page |-> 2, results |-> <<"p2c">>]>>


(* C24: when a loadUsers request resolves with an empty list, hasMore      *)
(* becomes false, currentPage and users are unchanged and error stays      *)
(* null; from then on no step, scroll checks included, issues a request.   *)
C24_EmptyPageEndsLoading ==
  [][ /\ ( /\ listLast'.op = "settled"
           /\ listLast'.outcome.type = "resolve"
           /\ listLast'.outcome.value.tag = "ApiResponse"
           /\ listLast'.outcome.value.results = << >> )
         => /\ ~hasMore'
            /\ UNCHANGED <<users, currentPage, errorRef>>
            /\ errorRef' = Null
            /\ ~loading'
            /\ exhausted'
      /\ exhausted
         => /\ inflight' = inflight /\ inflight = << >>
            /\ ~hasMore'
            /\ errorRef' = Null
            /\ UNCHANGED <<users, currentPage, loading>>
    ]_allVars

C24_Witness ==
  /\ exhausted
  /\ listLast.op = "scrollCheck"
  /\ listLast.geometry.scrollTop = 500
  /\ listLast.issued = 0
  /\ ~loading /\ ~hasMore /\ errorRef = Null
  /\ currentPage = 2 /\ inflight = << >>


====
